---- MODULE Spec2Model ----
(***************************************************************************)
(* Model of the two HTTP handlers of the insurance-document service:       *)
(*   POST /process-insurance           (src/main.py)                      *)
(*   POST /process-insurance-combined  (src/main_insurance.py)            *)
(* Each handler is a sequence of steps, one per call to an external        *)
(* collaborator (request body, base64, rasterizer, object store, OCR).     *)
(* The outcome of every collaborator call is chosen nondeterministically.  *)
(* Strings whose content matters (OCR text) are sequences of characters.   *)
(***************************************************************************)
EXTENDS Integers, Sequences, FiniteSets, TLC

\* Largest number of pages of a submitted document.
MaxPages == 2

\* The requests in flight.  Two are what a statement about a pair of
\* requests (isolation, equal responses for equal inputs) needs.
Requests == {"r1", "r2"}

VARIABLES
    pc,              \* pc[r]: position of request r in its handler
    endpoint,        \* endpoint[r]: the route request r was sent to
    header,          \* header[r]: the X-Api-Key header of request r
    body,            \* body[r]: the request body
    doc,             \* doc[r]: the decoded document bytes / opened document
    page_number,     \* page_number[r]: loop index of the rasterize/upload loop
    image_keys,      \* image_keys[r]: keys uploaded so far, in order
    deleted_keys,    \* deleted_keys[r]: keys whose delete_object returned
    idx,             \* idx[r]: loop index of the OCR loop (1-based)
    ocr_raised,      \* ocr_raised[r]: the OCR call of the current page raised
    raw_text_pages,  \* raw_text_pages[r]: text of the pages OCR'd so far
    leftover,        \* leftover[r]: keys _safe_delete_s3 still has to visit
    pending,         \* pending[r]: response returned once leftover is empty
    response,        \* response[r]: the HTTP response of request r
    s3_objects,      \* the bucket: the set of keys that hold an object
    trace,           \* trace[r]: collaborator calls request r made, in order
    kv_blocks,       \* input of the key-value reconstruction on its own
    kv_result        \* its result

vars == <<pc, endpoint, header, body, doc, page_number, image_keys,
          deleted_keys, idx, ocr_raised, raw_text_pages, leftover, pending,
          response, s3_objects, trace, kv_blocks, kv_result>>

hvars == <<pc, endpoint, header, body, doc, page_number, image_keys,
           deleted_keys, idx, ocr_raised, raw_text_pages, leftover, pending,
           response, s3_objects, trace>>

kvars == <<kv_blocks, kv_result>>

(***************************************************************************)
(* Strings                                                                 *)
(***************************************************************************)
SP == " "
NL == "\n"

RECURSIVE Join(_, _)
\* sep.join(parts): parts is a sequence of strings, sep a string.
Join(sep, parts) ==
    IF parts = <<>> THEN <<>>
    ELSE IF Len(parts) = 1 THEN parts[1]
    ELSE parts[1] \o sep \o Join(sep, Tail(parts))

RECURSIVE LStrip(_)
LStrip(s) == IF s # <<>> /\ Head(s) \in {SP, NL} THEN LStrip(Tail(s)) ELSE s

RECURSIVE RStrip(_)
RStrip(s) ==
    IF s # <<>> /\ s[Len(s)] \in {SP, NL} THEN RStrip(SubSeq(s, 1, Len(s) - 1))
    ELSE s

\* str.strip()
Strip(s) == RStrip(LStrip(s))

(***************************************************************************)
(* Requests                                                                *)
(***************************************************************************)
Basic == "/process-insurance"
Combined == "/process-insurance-combined"

\* X-Api-Key header values: absent, or present with some value.
API_KEY == "secret"
Absent == "(absent)"
Headers == {Absent, "guess", API_KEY}

\* A document: pages = -1 is a byte stream that is no parseable PDF.
Docs == {[pages |-> n] : n \in -1 .. MaxPages}
NoDoc == [pages |-> -1]

\* The `file` string.  data: the document its base64 characters encode;
\* junk: ASCII characters outside the base64 alphabet are mixed in;
\* padded: its length and padding are right.
Files ==
    {[data |-> d, junk |-> FALSE, padded |-> TRUE] : d \in Docs}
    \cup {[data |-> [pages |-> 1], junk |-> TRUE, padded |-> TRUE],
          [data |-> [pages |-> 1], junk |-> FALSE, padded |-> FALSE]}

\* The `filename` string, split where os.path.splitext splits it.
Filenames == {[stem |-> "claim", ext |-> ".pdf"]}
NoFile == [data |-> NoDoc, junk |-> FALSE, padded |-> TRUE]
NoFilename == [stem |-> "", ext |-> ""]

\* Request bodies: text that is no JSON, or a JSON object with some of the
\* two fields.
Bodies ==
    {[json |-> FALSE, keys |-> {}, file |-> NoFile, filename |-> NoFilename]}
    \cup {[json |-> TRUE, keys |-> {}, file |-> NoFile, filename |-> NoFilename]}
    \cup {[json |-> TRUE, keys |-> {"filename"}, file |-> NoFile, filename |-> fn] :
            fn \in Filenames}
    \cup {[json |-> TRUE, keys |-> {"file"}, file |-> f, filename |-> NoFilename] :
            f \in {[data |-> [pages |-> 1], junk |-> FALSE, padded |-> TRUE]}}
    \cup {[json |-> TRUE, keys |-> {"file", "filename"}, file |-> f, filename |-> fn] :
            f \in Files, fn \in Filenames}
NoBody == [json |-> FALSE, keys |-> {}, file |-> NoFile, filename |-> NoFilename]

\* "file" not in body or "filename" not in body
MissingField_file_only(b) == "file" \notin b.keys
MissingField(b) == "file" \notin b.keys \/ "filename" \notin b.keys

\* base64.b64decode(s) with validate=False: characters outside the alphabet
\* are discarded, then wrong padding raises.
B64Raises(f) == ~f.padded
B64Decode(f) == f.data

\* os.path.splitext(original_filename)[0]
filename_base(fn) == fn.stem

\* str(uuid.uuid4()): the n-th token request r draws.
uuid4(r, n) == <<r, n>>

\* f"{filename_base}-page{page_number + 1}-{uuid.uuid4()}.png"
image_key_no_token(r, fn, p) == <<filename_base(fn), p + 1, <<"", 0>>>>
image_key(r, fn, p) == <<filename_base(fn), p + 1, uuid4(r, p + 1)>>

\* f"{filename_base}-{uuid.uuid4()}.png"
filename_key(r, fn) == <<filename_base(fn), 0, uuid4(r, 1)>>

NoKey == <<"", 0, <<"", 0>>>>

(***************************************************************************)
(* Responses                                                               *)
(***************************************************************************)
\* JSONResponse(status_code, content={key: ...}); text holds an error
\* message or the raw text, fields the key-value mapping.
Resp(code, key, text, fields) ==
    [status |-> code, key |-> key, text |-> text, fields |-> fields]
NoResp == Resp(0, "", <<>>, {})
Error(code, msg) == Resp(code, "error", <<msg>>, {})
\* The body FastAPI writes for an HTTPException or a validation error.
Detail(code, msg) == Resp(code, "detail", <<msg>>, {})

(***************************************************************************)
(* Collaborator calls, as recorded in trace[r]                             *)
(***************************************************************************)
Call(op, key, ok, out) == [op |-> op, key |-> key, ok |-> ok, out |-> out]
Log(r, calls) == trace' = [trace EXCEPT ![r] = @ \o calls]

Ops(r, op) == {i \in 1 .. Len(trace[r]) : trace[r][i].op = op}

(***************************************************************************)
(* OCR responses of detect_document_text: lists of blocks                  *)
(***************************************************************************)
Block(type, text) == [BlockType |-> type, Text |-> text]

OcrResponses ==
    << <<Block("PAGE", <<>>), Block("LINE", <<"A">>), Block("WORD", <<"A">>),
         Block("LINE", <<"B">>)>>,
       <<Block("PAGE", <<>>), Block("LINE", <<"C">>)>> >>

RECURSIVE LineTexts(_)
\* [block["Text"] for block in blocks if block["BlockType"] == "LINE"]
LineTexts(blocks) ==
    IF blocks = <<>> THEN <<>>
    ELSE (IF Head(blocks).BlockType = "LINE" THEN <<Head(blocks).Text>> ELSE <<>>)
         \o LineTexts(Tail(blocks))

\* page_text = "\n".join(lines)
page_text(blocks) == Join(<<NL>>, LineTexts(blocks))

\* raw_text = "\n\n".join(raw_text_pages)
raw_text_single_newline(pages) == Join(<<NL>>, pages)
raw_text(pages) == Join(<<NL, NL>>, pages)

(***************************************************************************)
(* Key-value reconstruction from the block graph of analyze_document       *)
(* (src/main.py, lines 114-143)                                            *)
(***************************************************************************)
Rel(type, ids) == [Type |-> type, Ids |-> ids]

\* A block of the response.  hasRel: the block has a "Relationships" key.
KVBlock(id, type, entity, text, hasRel, rels) ==
    [Id |-> id, BlockType |-> type, EntityTypes |-> entity, Text |-> text,
     hasRel |-> hasRel, Relationships |-> rels]
Word(id, text) == KVBlock(id, "WORD", {}, text, FALSE, <<>>)

BlockIds(blocks) == {blocks[i].Id : i \in DOMAIN blocks}

\* block_map = {b["Id"]: b for b in blocks}: a later block replaces an
\* earlier one with the same Id.
block_map(blocks, id) ==
    LET at == {i \in DOMAIN blocks : blocks[i].Id = id}
    IN  blocks[CHOOSE i \in at : \A j \in at : j <= i]

\* block_map[child_id] raises KeyError for an id that is in no block.
KeyError(blocks, ids) == \E i \in DOMAIN ids : ids[i] \notin BlockIds(blocks)

RECURSIVE WordTexts(_, _)
\* [block_map[c]["Text"] for c in ids if block_map[c]["BlockType"] == "WORD"]
WordTexts(blocks, ids) ==
    IF ids = <<>> THEN <<>>
    ELSE (IF block_map(blocks, Head(ids)).BlockType = "WORD"
            THEN <<block_map(blocks, Head(ids)).Text>> ELSE <<>>)
         \o WordTexts(blocks, Tail(ids))

\* " ".join([...])
WordJoin(blocks, ids) == Join(<<SP>>, WordTexts(blocks, ids))

RECURSIVE ChildLoop(_, _, _)
\* for child_rel in value_block["Relationships"]: if CHILD: val = ...
ChildLoop(blocks, rels, val) ==
    IF rels = <<>> THEN val
    ELSE ChildLoop(blocks, Tail(rels),
                   IF Head(rels).Type = "CHILD"
                     THEN WordJoin(blocks, Head(rels).Ids) ELSE val)

RECURSIVE ValueLoop(_, _, _)
\* for value_id in rel["Ids"]: skip a value block that is missing or has no
\* "Relationships".
ValueLoop(blocks, ids, val) ==
    IF ids = <<>> THEN val
    ELSE ValueLoop(blocks, Tail(ids),
                   IF Head(ids) \notin BlockIds(blocks)
                      \/ ~block_map(blocks, Head(ids)).hasRel
                     THEN val
                     ELSE ChildLoop(blocks,
                                    block_map(blocks, Head(ids)).Relationships,
                                    val))

RECURSIVE RelLoop(_, _, _, _)
\* for rel in block.get("Relationships", []): the pair <<key, val>> after it.
RelLoop(blocks, rels, key, val) ==
    IF rels = <<>> THEN <<key, val>>
    ELSE RelLoop(blocks, Tail(rels),
                 IF Head(rels).Type = "CHILD"
                   THEN WordJoin(blocks, Head(rels).Ids) ELSE key,
                 IF Head(rels).Type = "VALUE"
                   THEN ValueLoop(blocks, Head(rels).Ids, val) ELSE val)

\* block["BlockType"] == "KEY_VALUE_SET" and "KEY" in block.get("EntityTypes", [])
IsKeyBlock(b) == b.BlockType = "KEY_VALUE_SET" /\ "KEY" \in b.EntityTypes

\* Some block_map[child_id] the loops evaluate raises KeyError.
KVRaises(blocks) ==
    \E i \in DOMAIN blocks :
        /\ IsKeyBlock(blocks[i])
        /\ \E j \in DOMAIN blocks[i].Relationships :
             LET rel == blocks[i].Relationships[j]
             IN  \/ rel.Type = "CHILD" /\ KeyError(blocks, rel.Ids)
                 \/ /\ rel.Type = "VALUE"
                    /\ \E v \in DOMAIN rel.Ids :
                         /\ rel.Ids[v] \in BlockIds(blocks)
                         /\ block_map(blocks, rel.Ids[v]).hasRel
                         /\ \E c \in DOMAIN block_map(blocks, rel.Ids[v]).Relationships :
                              LET cr == block_map(blocks, rel.Ids[v]).Relationships[c]
                              IN  cr.Type = "CHILD" /\ KeyError(blocks, cr.Ids)

\* `if key and val`: both strings are non-empty (before any trimming).
key_and_val_stripped(key, val) == Strip(key) # <<>> /\ Strip(val) # <<>>
key_only(key, val) == key # <<>>
key_and_val(key, val) == key # <<>> /\ val # <<>>

\* key_values[k] = v on a mapping held as a set of <<key, value>> pairs.
SetItem(kv, k, v) == {p \in kv : p[1] # k} \cup {<<k, v>>}

\* What one block adds to key_values.
KVStep(blocks, b, kv) ==
    IF ~IsKeyBlock(b) THEN kv
    ELSE LET p == RelLoop(blocks, b.Relationships, <<>>, <<>>)
         IN  IF key_and_val(p[1], p[2])
               THEN SetItem(kv, Strip(p[1]), Strip(p[2]))
               ELSE kv

RECURSIVE KVLoop(_, _, _)
\* for block in blocks: ...
KVLoop(blocks, rest, kv) ==
    IF rest = <<>> THEN kv
    ELSE KVLoop(blocks, Tail(rest), KVStep(blocks, Head(rest), kv))

\* The mapping the handler returns as `fields`.
key_values(blocks) == KVLoop(blocks, blocks, {})

\* Block graphs: one KEY block k1 whose CHILD words are w1, w2, linked (or
\* not) by VALUE to v1, whose CHILD (if any) is the word w3.
Texts == {<<>>, <<SP>>, <<"N">>}

KVGraph(t1, t2, t3, hasValue, hasChild) ==
    << Word("w1", t1), Word("w2", t2), Word("w3", t3),
       KVBlock("k1", "KEY_VALUE_SET", {"KEY"}, <<>>, TRUE,
               <<Rel("CHILD", <<"w1", "w2">>)>>
               \o (IF hasValue THEN <<Rel("VALUE", <<"v1">>)>> ELSE <<>>)),
       KVBlock("v1", "KEY_VALUE_SET", {"VALUE"}, <<>>, hasChild,
               IF hasChild THEN <<Rel("CHILD", <<"w3">>)>> ELSE <<>>) >>

KVGraphs ==
    {KVGraph(t1, t2, t3, hv, hc) :
        t1 \in Texts, t2 \in Texts, t3 \in Texts, hv \in BOOLEAN, hc \in BOOLEAN}

\* Block graphs with two KEY blocks.  k1 (key "A") has no value: it has no
\* VALUE relationship ("no_value"), or its value block v1 has no
\* "Relationships" ("no_relationships") or only one that is not CHILD
\* ("no_child").  k2 (key "N") has the value "J".  k1 comes first or last.
TwoKeyGraph(kind, first) ==
    LET k1 == KVBlock("k1", "KEY_VALUE_SET", {"KEY"}, <<>>, TRUE,
                      <<Rel("CHILD", <<"w1">>)>>
                      \o (IF kind = "no_value" THEN <<>>
                          ELSE <<Rel("VALUE", <<"v1">>)>>))
        v1 == KVBlock("v1", "KEY_VALUE_SET", {"VALUE"}, <<>>,
                      kind = "no_child",
                      IF kind = "no_child"
                        THEN <<Rel("COMPLEX_FEATURES", <<"w3">>)>> ELSE <<>>)
        k2 == KVBlock("k2", "KEY_VALUE_SET", {"KEY"}, <<>>, TRUE,
                      <<Rel("CHILD", <<"w2">>), Rel("VALUE", <<"v2">>)>>)
        v2 == KVBlock("v2", "KEY_VALUE_SET", {"VALUE"}, <<>>, TRUE,
                      <<Rel("CHILD", <<"w3">>)>>)
        words == <<Word("w1", <<"A">>), Word("w2", <<"N">>), Word("w3", <<"J">>)>>
    IN  words \o (IF first THEN <<k1, v1, k2, v2>> ELSE <<k2, v2, k1, v1>>)

TwoKeyGraphs ==
    {TwoKeyGraph(kind, first) :
        kind \in {"no_value", "no_relationships", "no_child"}, first \in BOOLEAN}

\* A graph whose KEY block names a child that is in no block.
DanglingGraph ==
    << Word("w1", <<"N">>),
       KVBlock("k1", "KEY_VALUE_SET", {"KEY"}, <<>>, TRUE,
               <<Rel("CHILD", <<"w1", "w9">>)>>) >>

\* The analyze_document responses the handler model draws from.
AnalyzeResponses ==
    << KVGraph(<<"N">>, <<>>, <<"J">>, TRUE, TRUE),
       KVGraph(<<>>, <<>>, <<"J">>, TRUE, TRUE),
       DanglingGraph >>

(***************************************************************************)
(* Initial state                                                           *)
(***************************************************************************)
NoResult == [done |-> FALSE, raised |-> FALSE, fields |-> {}, response |-> NoResp]

HandlerInit ==
    /\ pc = [r \in Requests |-> "idle"]
    /\ endpoint = [r \in Requests |-> ""]
    /\ header = [r \in Requests |-> Absent]
    /\ body = [r \in Requests |-> NoBody]
    /\ doc = [r \in Requests |-> NoDoc]
    /\ page_number = [r \in Requests |-> 0]
    /\ image_keys = [r \in Requests |-> <<>>]
    /\ deleted_keys = [r \in Requests |-> {}]
    /\ idx = [r \in Requests |-> 0]
    /\ ocr_raised = [r \in Requests |-> FALSE]
    /\ raw_text_pages = [r \in Requests |-> <<>>]
    /\ leftover = [r \in Requests |-> <<>>]
    /\ pending = [r \in Requests |-> NoResp]
    /\ response = [r \in Requests |-> NoResp]
    /\ s3_objects = {}
    /\ trace = [r \in Requests |-> <<>>]

Init ==
    /\ HandlerInit
    /\ kv_blocks = <<>>
    /\ kv_result = NoResult

(***************************************************************************)
(* Steps shared by the handlers                                            *)
(***************************************************************************)
Goto(r, label) == pc' = [pc EXCEPT ![r] = label]

\* return JSONResponse(...)
Return(r, resp) ==
    /\ pc' = [pc EXCEPT ![r] = "done"]
    /\ response' = [response EXCEPT ![r] = resp]

\* [k for k in image_keys if k not in deleted_keys]
not_deleted_unfiltered(keys, deleted) == keys
not_deleted_nothing(keys, deleted) == <<>>
not_deleted(keys, deleted) == SelectSeq(keys, LAMBDA k : k \notin deleted)

\* _safe_delete_s3(keys) followed by `return resp`: the loop runs one
\* delete_object call per step; with nothing to delete the return is at once.
SafeDeleteThenReturn(r, keys, resp) ==
    IF keys = <<>>
      THEN Return(r, resp) /\ UNCHANGED <<leftover, pending>>
      ELSE /\ Goto(r, "cleanup")
           /\ leftover' = [leftover EXCEPT ![r] = keys]
           /\ pending' = [pending EXCEPT ![r] = resp]
           /\ UNCHANGED response

\* A client sends a request to one of the two routes.
Receive(r) ==
    /\ pc[r] = "idle"
    /\ \E e \in {Basic, Combined} :
         /\ endpoint' = [endpoint EXCEPT ![r] = e]
         /\ \E h \in (IF e = Combined THEN Headers ELSE {Absent}) :
              header' = [header EXCEPT ![r] = h]
         /\ Goto(r, IF e = Combined THEN "auth" ELSE "pi_json")
    /\ UNCHANGED <<body, doc, page_number, image_keys, deleted_keys, idx,
                   ocr_raised, raw_text_pages, leftover, pending, response,
                   s3_objects, trace, kvars>>

(***************************************************************************)
(* POST /process-insurance-combined (src/main_insurance.py)                *)
(***************************************************************************)
\* Depends(verify_api_key) with x_api_key: str = Header(...): the status the
\* request is refused with, 0 when it is let through.  A required header
\* that is absent is refused by the framework's validation (422) before
\* the function body runs.
verify_api_key_403_when_absent(x_api_key) ==
    IF x_api_key # API_KEY THEN 403 ELSE 0
verify_api_key(x_api_key) ==
    IF x_api_key = Absent THEN 422
    ELSE IF x_api_key # API_KEY THEN 403
    ELSE 0

pic_depends(r) ==
    /\ pc[r] = "auth"
    /\ LET code == verify_api_key(header[r])
       IN  IF code = 0
             THEN Goto(r, "pic_json") /\ UNCHANGED response
             ELSE Return(r, Detail(code, IF code = 403
                                           THEN "Invalid or missing API key"
                                           ELSE "field required"))
    /\ UNCHANGED <<endpoint, header, body, doc, page_number, image_keys,
                   deleted_keys, idx, ocr_raised, raw_text_pages, leftover,
                   pending, s3_objects, trace, kvars>>

\* body = await request.json() and the check of the two fields.
pic_request_json(r) ==
    /\ pc[r] = "pic_json"
    /\ \E b \in Bodies :
         /\ body' = [body EXCEPT ![r] = b]
         /\ Log(r, <<Call("json", NoKey, b.json, 0)>>)
         /\ IF ~b.json
              THEN SafeDeleteThenReturn(r,
                       not_deleted(image_keys[r], deleted_keys[r]),
                       Error(500, "Internal server error"))
              ELSE IF MissingField(b)
                THEN /\ Return(r, Error(400, "Missing 'file' or 'filename'"))
                     /\ UNCHANGED <<leftover, pending>>
                ELSE /\ Goto(r, "pic_b64")
                     /\ UNCHANGED <<leftover, pending, response>>
    /\ UNCHANGED <<endpoint, header, doc, page_number, image_keys,
                   deleted_keys, idx, ocr_raised, raw_text_pages, s3_objects,
                   kvars>>

\* file_bytes = base64.b64decode(base64_file)
pic_b64decode(r) ==
    /\ pc[r] = "pic_b64"
    /\ Log(r, <<Call("b64", NoKey, ~B64Raises(body[r].file), 0)>>)
    /\ IF B64Raises(body[r].file)
         THEN Return(r, Error(400, "Invalid base64 file.")) /\ UNCHANGED doc
         ELSE /\ doc' = [doc EXCEPT ![r] = B64Decode(body[r].file)]
              /\ Goto(r, "pic_open")
              /\ UNCHANGED response
    /\ UNCHANGED <<endpoint, header, body, page_number, image_keys,
                   deleted_keys, idx, ocr_raised, raw_text_pages, leftover,
                   pending, s3_objects, kvars>>

\* len(doc) == 0
HasNoPages_never(d) == FALSE
HasNoPages(d) == d.pages = 0

\* The 200 response: raw_text = "\n\n".join(raw_text_pages)
pic_ok(pages) == Resp(200, "raw_text", raw_text(pages), {})

\* doc = fitz.open(...), the zero-page check, and the start of the page loop.
pic_open(r) ==
    /\ pc[r] = "pic_open"
    /\ Log(r, <<Call("open", NoKey, doc[r].pages >= 0, 0)>>)
    /\ IF doc[r].pages < 0
         THEN SafeDeleteThenReturn(r,
                  not_deleted(image_keys[r], deleted_keys[r]),
                  Error(500, "PDF processing failed."))
         ELSE IF HasNoPages(doc[r])
           THEN /\ Return(r, Error(400, "PDF has no pages."))
                /\ UNCHANGED <<leftover, pending>>
           ELSE IF doc[r].pages = 0
             THEN /\ Return(r, pic_ok(raw_text_pages[r]))
                  /\ UNCHANGED <<leftover, pending>>
             ELSE /\ Goto(r, "pic_put")
                  /\ UNCHANGED <<leftover, pending, response>>
    /\ UNCHANGED <<endpoint, header, body, doc, page_number, image_keys,
                   deleted_keys, idx, ocr_raised, raw_text_pages, s3_objects,
                   kvars>>

\* One round of the page loop: rasterize page page_number, put_object it.
pic_put_object(r) ==
    /\ pc[r] = "pic_put"
    /\ LET key == image_key(r, body[r].filename, page_number[r])
       IN  \E ok \in BOOLEAN :
             /\ Log(r, <<Call("raster", NoKey, TRUE, page_number[r] + 1),
                         Call("put", key, ok, page_number[r] + 1)>>)
             /\ IF ok
                  THEN /\ s3_objects' = s3_objects \cup {key}
                       /\ image_keys' = [image_keys EXCEPT ![r] = Append(@, key)]
                       /\ page_number' = [page_number EXCEPT ![r] = @ + 1]
                       /\ idx' = [idx EXCEPT ![r] = 1]
                       /\ Goto(r, IF page_number[r] + 1 = doc[r].pages
                                    THEN "pic_ocr" ELSE "pic_put")
                       /\ UNCHANGED <<leftover, pending, response>>
                  ELSE /\ SafeDeleteThenReturn(r,
                              not_deleted(image_keys[r], deleted_keys[r]),
                              Error(500, "PDF processing failed."))
                       /\ UNCHANGED <<s3_objects, image_keys, page_number, idx>>
    /\ UNCHANGED <<endpoint, header, body, doc, deleted_keys, ocr_raised,
                   raw_text_pages, kvars>>

\* textract.detect_document_text on page idx: it raises (out = 0) or returns
\* a response, which needs the object to be in the bucket.
pic_detect_document_text(r) ==
    /\ pc[r] = "pic_ocr"
    /\ LET key == image_keys[r][idx[r]]
       IN  \E out \in 0 .. Len(OcrResponses) :
             /\ out > 0 => key \in s3_objects
             /\ Log(r, <<Call("ocr", key, out > 0, out)>>)
             /\ ocr_raised' = [ocr_raised EXCEPT ![r] = (out = 0)]
             /\ raw_text_pages' =
                  [raw_text_pages EXCEPT ![r] =
                     IF out > 0 THEN Append(@, page_text(OcrResponses[out]))
                     ELSE @]
    /\ Goto(r, "pic_delete")
    /\ UNCHANGED <<endpoint, header, body, doc, page_number, image_keys,
                   deleted_keys, idx, leftover, pending, response, s3_objects,
                   kvars>>

\* Whether an exception leaves the `finally` block of a page: the OCR call's
\* exception does, a failure of delete_object is caught and logged.
page_raises_on_delete_failure(ocr_failed, delete_ok) == ocr_failed \/ ~delete_ok
page_raises_never(ocr_failed, delete_ok) == FALSE
page_raises(ocr_failed, delete_ok) == ocr_failed

\* The page loop without its `finally` block: no delete_object call.
pic_delete_object_skipped(r) ==
    /\ pc[r] = "pic_delete"
    /\ IF ocr_raised[r]
         THEN /\ SafeDeleteThenReturn(r,
                     not_deleted(image_keys[r], deleted_keys[r]),
                     Error(500, "Textract OCR failed."))
              /\ UNCHANGED idx
         ELSE IF idx[r] = Len(image_keys[r])
           THEN /\ Return(r, pic_ok(raw_text_pages[r]))
                /\ UNCHANGED <<idx, leftover, pending>>
           ELSE /\ Goto(r, "pic_ocr")
                /\ idx' = [idx EXCEPT ![r] = @ + 1]
                /\ UNCHANGED <<leftover, pending, response>>
    /\ UNCHANGED <<endpoint, header, body, doc, page_number, image_keys,
                   deleted_keys, ocr_raised, raw_text_pages, s3_objects,
                   trace, kvars>>

\* The `finally` block of page idx: delete_object, then the next page, the
\* 200 response, or the handler of the OCR failure.
pic_delete_object(r) ==
    /\ pc[r] = "pic_delete"
    /\ LET key == image_keys[r][idx[r]]
       IN  \E ok \in BOOLEAN :
             LET deleted == IF ok THEN deleted_keys[r] \cup {key}
                            ELSE deleted_keys[r]
             IN  /\ Log(r, <<Call("del", key, ok, idx[r])>>)
                 /\ s3_objects' = IF ok THEN s3_objects \ {key} ELSE s3_objects
                 /\ deleted_keys' = [deleted_keys EXCEPT ![r] = deleted]
                 /\ IF page_raises(ocr_raised[r], ok)
                      THEN /\ SafeDeleteThenReturn(r,
                                  not_deleted(image_keys[r], deleted),
                                  Error(500, "Textract OCR failed."))
                           /\ UNCHANGED idx
                      ELSE IF idx[r] = Len(image_keys[r])
                        THEN /\ Return(r, pic_ok(raw_text_pages[r]))
                             /\ UNCHANGED <<idx, leftover, pending>>
                        ELSE /\ Goto(r, "pic_ocr")
                             /\ idx' = [idx EXCEPT ![r] = @ + 1]
                             /\ UNCHANGED <<leftover, pending, response>>
    /\ UNCHANGED <<endpoint, header, body, doc, page_number, image_keys,
                   ocr_raised, raw_text_pages, kvars>>

\* One round of the loop of _safe_delete_s3: delete_object on the next key,
\* a failure logged; after the last key the handler returns its response.
safe_delete_s3(r) ==
    /\ pc[r] = "cleanup"
    /\ LET key == Head(leftover[r])
       IN  \E ok \in BOOLEAN :
             /\ Log(r, <<Call("del", key, ok, 0)>>)
             /\ s3_objects' = IF ok THEN s3_objects \ {key} ELSE s3_objects
    /\ leftover' = [leftover EXCEPT ![r] = Tail(@)]
    /\ IF Tail(leftover[r]) = <<>>
         THEN Return(r, pending[r])
         ELSE UNCHANGED <<pc, response>>
    /\ UNCHANGED <<endpoint, header, body, doc, page_number, image_keys,
                   deleted_keys, idx, ocr_raised, raw_text_pages, pending,
                   kvars>>

(***************************************************************************)
(* POST /process-insurance (src/main.py)                                   *)
(***************************************************************************)
\* body = await request.json() and the check of the two fields.
pi_request_json(r) ==
    /\ pc[r] = "pi_json"
    /\ \E b \in Bodies :
         /\ body' = [body EXCEPT ![r] = b]
         /\ Log(r, <<Call("json", NoKey, b.json, 0)>>)
         /\ IF ~b.json
              THEN Return(r, Error(500, "Internal server error."))
              ELSE IF MissingField(b)
                THEN Return(r, Error(400,
                         "Missing 'file' or 'filename' in request body."))
                ELSE Goto(r, "pi_b64") /\ UNCHANGED response
    /\ UNCHANGED <<endpoint, header, doc, page_number, image_keys,
                   deleted_keys, idx, ocr_raised, raw_text_pages, leftover,
                   pending, s3_objects, kvars>>

\* file_bytes = base64.b64decode(base64_file)
pi_b64decode(r) ==
    /\ pc[r] = "pi_b64"
    /\ Log(r, <<Call("b64", NoKey, ~B64Raises(body[r].file), 0)>>)
    /\ IF B64Raises(body[r].file)
         THEN Return(r, Error(400, "Invalid base64 string.")) /\ UNCHANGED doc
         ELSE /\ doc' = [doc EXCEPT ![r] = B64Decode(body[r].file)]
              /\ Goto(r, "pi_flatten")
              /\ UNCHANGED response
    /\ UNCHANGED <<endpoint, header, body, page_number, image_keys,
                   deleted_keys, idx, ocr_raised, raw_text_pages, leftover,
                   pending, s3_objects, kvars>>

\* fitz.open, doc.load_page(0), get_pixmap, tobytes: any of them raising
\* (no PDF, or no page 0) is answered 400.
pi_flatten(r) ==
    /\ pc[r] = "pi_flatten"
    /\ IF doc[r].pages < 1
         THEN /\ Log(r, <<Call("open", NoKey, doc[r].pages >= 0, 0)>>)
              /\ Return(r, Error(400, "Could not flatten PDF."))
         ELSE /\ Log(r, <<Call("open", NoKey, TRUE, 0),
                          Call("raster", NoKey, TRUE, 1)>>)
              /\ Goto(r, "pi_put")
              /\ UNCHANGED response
    /\ UNCHANGED <<endpoint, header, body, doc, page_number, image_keys,
                   deleted_keys, idx, ocr_raised, raw_text_pages, leftover,
                   pending, s3_objects, kvars>>

\* s3.put_object(Key=filename): image_keys[r] holds the key (`filename`).
pi_put_object(r) ==
    /\ pc[r] = "pi_put"
    /\ LET key == filename_key(r, body[r].filename)
       IN  \E ok \in BOOLEAN :
             /\ Log(r, <<Call("put", key, ok, 1)>>)
             /\ IF ok
                  THEN /\ s3_objects' = s3_objects \cup {key}
                       /\ image_keys' = [image_keys EXCEPT ![r] = <<key>>]
                       /\ Goto(r, "pi_analyze")
                       /\ UNCHANGED response
                  ELSE /\ Return(r, Error(500, "S3 upload failed."))
                       /\ UNCHANGED <<s3_objects, image_keys>>
    /\ UNCHANGED <<endpoint, header, body, doc, page_number, deleted_keys,
                   idx, ocr_raised, raw_text_pages, leftover, pending, kvars>>

\* The response after analyze_document returned `blocks`: a KeyError of the
\* reconstruction reaches the outermost handler.
pi_fields(blocks) ==
    IF KVRaises(blocks) THEN Error(500, "Internal server error.")
    ELSE Resp(200, "fields", <<>>, key_values(blocks))

\* textract.analyze_document: it raises (out = 0) or returns a block graph,
\* from which the fields are rebuilt and returned.
pi_analyze_document(r) ==
    /\ pc[r] = "pi_analyze"
    /\ LET key == image_keys[r][1]
       IN  \E out \in 0 .. Len(AnalyzeResponses) :
             /\ out > 0 => key \in s3_objects
             /\ Log(r, <<Call("ocr", key, out > 0, out)>>)
             /\ IF out = 0
                  THEN Return(r, Error(400, "Document analysis failed."))
                  ELSE Return(r, pi_fields(AnalyzeResponses[out]))
    /\ UNCHANGED <<endpoint, header, body, doc, page_number, image_keys,
                   deleted_keys, idx, ocr_raised, raw_text_pages, leftover,
                   pending, s3_objects, kvars>>

(***************************************************************************)
(* The two handlers, for any number of interleaved requests                *)
(***************************************************************************)
Step(r) ==
    \/ Receive(r)
    \/ pic_depends(r)
    \/ pic_request_json(r)
    \/ pic_b64decode(r)
    \/ pic_open(r)
    \/ pic_put_object(r)
    \/ pic_detect_document_text(r)
    \/ pic_delete_object(r)
    \/ safe_delete_s3(r)
    \/ pi_request_json(r)
    \/ pi_b64decode(r)
    \/ pi_flatten(r)
    \/ pi_put_object(r)
    \/ pi_analyze_document(r)

Next == \E r \in Requests : Step(r)

Spec == Init /\ [][Next]_vars

\* Every call a handler makes returns or raises, and the server keeps running
\* each handler it has started: a request with a step to take takes it.
FairSpec == Spec /\ \A r \in Requests : WF_vars(Step(r))

(***************************************************************************)
(* The key-value reconstruction on its own, over every graph of KVGraphs   *)
(***************************************************************************)
InitKV ==
    /\ HandlerInit
    /\ kv_blocks \in KVGraphs \cup {DanglingGraph} \cup TwoKeyGraphs
    /\ kv_result = NoResult

\* Lines 114-145 of src/main.py applied to kv_blocks, with the response the
\* handler returns for them.
extract_key_values ==
    /\ ~kv_result.done
    /\ kv_result' =
         [done |-> TRUE, raised |-> KVRaises(kv_blocks),
          fields |-> IF KVRaises(kv_blocks) THEN {} ELSE key_values(kv_blocks),
          response |-> pi_fields(kv_blocks)]
    /\ UNCHANGED <<kv_blocks, hvars>>

NextKV == extract_key_values

SpecKV == InitKV /\ [][NextKV]_vars

(***************************************************************************)
(* What a request did, read from its trace                                 *)
(***************************************************************************)
Done(r) == pc[r] = "done"
Status(r) == response[r].status

\* The put_object calls that succeeded, and the keys they stored.
PutOk(r) == {i \in Ops(r, "put") : trace[r][i].ok}
Uploaded(r) == {trace[r][i].key : i \in PutOk(r)}

\* The delete_object and OCR calls on key k.
DelOn(r, k) == {i \in Ops(r, "del") : trace[r][i].key = k}
OcrOn(r, k) == {i \in Ops(r, "ocr") : trace[r][i].key = k}

\* The OCR calls that raised.
OcrFailed(r) == {i \in Ops(r, "ocr") : ~trace[r][i].ok}

\* No delete_object call on a key follows a successful one on the same key.
NoDeleteAfterDeleted(r) ==
    \A i \in Ops(r, "del") : \A j \in Ops(r, "del") :
        (i < j /\ trace[r][i].key = trace[r][j].key) => ~trace[r][i].ok

\* Key k is in the bucket exactly if every delete_object call on it failed.
RemainsIffDeletesFailed(r, k) ==
    k \in s3_objects <=> \A i \in DelOn(r, k) : ~trace[r][i].ok

(***************************************************************************)
(* C1                                                                      *)
(***************************************************************************)
\* C1 as stated: a request to /process-insurance-combined that is answered
\* 200 has uploaded exactly N objects and deleted exactly N, and none of
\* its objects remains in the bucket.
C1_NoResidualObjects ==
    \A r \in Requests :
        (endpoint[r] = Combined /\ Done(r) /\ Status(r) = 200) =>
            /\ Cardinality(Uploaded(r)) = doc[r].pages
            /\ Cardinality(Ops(r, "del")) = doc[r].pages
            /\ Uploaded(r) \cap s3_objects = {}

\* C1 amended: a request to /process-insurance-combined that is answered
\* 200 has N >= 1 pages, made exactly N put_object calls, all successful and
\* on N distinct keys, and exactly one delete_object call on each of these
\* keys, after that key's OCR call; an object of the request remains in the
\* bucket exactly if the delete_object call on it failed.
C1_OneDeletePerUploadedKey ==
    \A r \in Requests :
        (endpoint[r] = Combined /\ Done(r) /\ Status(r) = 200) =>
            /\ doc[r].pages >= 1
            /\ Ops(r, "put") = PutOk(r)
            /\ Cardinality(Ops(r, "put")) = doc[r].pages
            /\ Cardinality(Uploaded(r)) = doc[r].pages
            /\ Cardinality(Ops(r, "del")) = doc[r].pages
            /\ OcrFailed(r) = {}
            /\ \A k \in Uploaded(r) :
                 /\ Cardinality(DelOn(r, k)) = 1
                 /\ Cardinality(OcrOn(r, k)) = 1
                 /\ \A i \in DelOn(r, k) : \A o \in OcrOn(r, k) : o < i
                 /\ RemainsIffDeletesFailed(r, k)

\* A 200 answer for a document of MaxPages pages, all objects gone.
C1_Witness ==
    \E r \in Requests :
        /\ endpoint[r] = Combined /\ Done(r) /\ Status(r) = 200
        /\ doc[r].pages = MaxPages
        /\ Cardinality(Ops(r, "del")) = MaxPages
        /\ Uploaded(r) \cap s3_objects = {}

(***************************************************************************)
(* C2                                                                      *)
(***************************************************************************)
\* The case of C2: all N pages were uploaded and an OCR call raised.
C2_Case(r) ==
    /\ endpoint[r] = Combined /\ Done(r)
    /\ doc[r].pages >= 1
    /\ Cardinality(PutOk(r)) = doc[r].pages
    /\ OcrFailed(r) # {}

\* C2 as stated: when all N pages were uploaded and the OCR call of page k
\* fails, each of the N objects is deleted (none remains in the bucket), the
\* response is 500, and no key already deleted is deleted again.
C2_AllObjectsDeleted ==
    \A r \in Requests :
        C2_Case(r) =>
            /\ Status(r) = 500
            /\ Uploaded(r) \cap s3_objects = {}
            /\ NoDeleteAfterDeleted(r)

\* C2 amended: when all N pages were uploaded and the OCR call of page k
\* fails, delete_object is called on each of the N keys, an object remains
\* in the bucket only if every delete_object call on it failed, the response
\* is 500 {error}, and no key whose delete_object call succeeded has
\* delete_object called on it again.
C2_DeleteAttemptedOnAll ==
    \A r \in Requests :
        C2_Case(r) =>
            /\ Status(r) = 500 /\ response[r].key = "error"
            /\ \A k \in Uploaded(r) :
                 DelOn(r, k) # {} /\ RemainsIffDeletesFailed(r, k)
            /\ NoDeleteAfterDeleted(r)

\* The OCR call of the last of MaxPages pages raised after the pages before
\* it were OCR'd and deleted; the request is answered and its objects gone.
C2_Witness ==
    \E r \in Requests :
        /\ C2_Case(r)
        /\ doc[r].pages = MaxPages
        /\ Cardinality(Ops(r, "ocr")) = MaxPages
        /\ Cardinality(Ops(r, "del")) = MaxPages
        /\ Uploaded(r) \cap s3_objects = {}

(***************************************************************************)
(* C3                                                                      *)
(***************************************************************************)
\* C3: on both endpoints and every exit path, each object a request
\* uploaded has had delete_object called on it, after the OCR call on it (if
\* any) returned, by the time the response is returned.
C3_DeleteAttemptedBeforeResponse ==
    \A r \in Requests :
        Done(r) =>
            \A k \in Uploaded(r) :
                \E i \in DelOn(r, k) : \A o \in OcrOn(r, k) : o < i

(***************************************************************************)
(* C4                                                                      *)
(***************************************************************************)
\* C4: a request to /process-insurance-combined whose X-Api-Key header is
\* absent or differs from the secret is answered 403, and no body parsing,
\* decoding, rasterization, object-store or OCR call was made for it.
C4_BadKeyIs403 ==
    \A r \in Requests :
        (endpoint[r] = Combined /\ Done(r) /\ header[r] # API_KEY) =>
            Status(r) = 403 /\ trace[r] = <<>>

(***************************************************************************)
(* C5                                                                      *)
(***************************************************************************)
\* The `file` string is valid base64.
ValidBase64(f) == f.padded /\ ~f.junk

\* A put_object or OCR call of request r failed.
ProviderFailed(r) == \E i \in Ops(r, "put") \cup Ops(r, "ocr") : ~trace[r][i].ok

\* C5: on /process-insurance a failed put_object or analyze_document is
\* answered 500; a request that met no such failure and has a missing field,
\* invalid base64 or an unreadable PDF is answered 400.
C5_BasicStatusCodes ==
    \A r \in Requests :
        (endpoint[r] = Basic /\ Done(r) /\ body[r].json) =>
            /\ ProviderFailed(r) => Status(r) = 500
            /\ (/\ ~ProviderFailed(r)
                /\ \/ body[r].keys # {"file", "filename"}
                   \/ ~ValidBase64(body[r].file)
                   \/ body[r].file.data.pages < 0)
                   => Status(r) = 400

(***************************************************************************)
(* C6                                                                      *)
(***************************************************************************)
\* C6: on /process-insurance-combined decoded bytes that are no parseable
\* document are answered 400, a failed put_object 500.
C6_UnreadableIs400 ==
    \A r \in Requests :
        (endpoint[r] = Combined /\ Done(r)) =>
            /\ (\E i \in Ops(r, "open") : ~trace[r][i].ok) => Status(r) = 400
            /\ (\E i \in Ops(r, "put") : ~trace[r][i].ok) => Status(r) = 500

(***************************************************************************)
(* C7                                                                      *)
(***************************************************************************)
\* The body of request r was parsed as a JSON object and lacks a field.
C7_Case(r) ==
    /\ Ops(r, "json") # {}
    /\ body[r].json
    /\ body[r].keys # {"file", "filename"}

\* C7: on both endpoints a body that lacks `file` or `filename` is answered
\* 400 with an {error} body, and no decoding, rasterizer, object-store or
\* OCR call is made for the request.
C7_MissingFieldIs400 ==
    \A r \in Requests :
        C7_Case(r) =>
            /\ Done(r)
            /\ Status(r) = 400 /\ response[r].key = "error"
            /\ response[r].fields = {}
            /\ Len(trace[r]) = 1

\* Both endpoints have answered a body that lacks a field.
C7_Witness ==
    \E r1 \in Requests : \E r2 \in Requests :
        /\ endpoint[r1] = Basic /\ C7_Case(r1) /\ body[r1].keys = {"file"}
        /\ endpoint[r2] = Combined /\ C7_Case(r2) /\ body[r2].keys = {"filename"}
        /\ Status(r1) = 400 /\ Status(r2) = 400

(***************************************************************************)
(* C8                                                                      *)
(***************************************************************************)
\* Request r opened a document that has no pages.
C8_Case(r) ==
    /\ endpoint[r] = Combined
    /\ \E i \in Ops(r, "open") : trace[r][i].ok
    /\ doc[r].pages = 0

\* C8: on /process-insurance-combined a document with zero pages is answered
\* 400, and no put_object, delete_object or OCR call is made.
C8_ZeroPagesIs400 ==
    \A r \in Requests :
        C8_Case(r) =>
            /\ Done(r) /\ Status(r) = 400 /\ response[r].key = "error"
            /\ Ops(r, "put") \cup Ops(r, "del") \cup Ops(r, "ocr")
                   \cup Ops(r, "raster") = {}

C8_Witness == \E r \in Requests : C8_Case(r) /\ Status(r) = 400

(***************************************************************************)
(* C9                                                                      *)
(***************************************************************************)
\* The calls of a trace other than delete_object, without their keys: what
\* the request met at its uploads and OCR calls.
NonDelete(t) ==
    LET u == SelectSeq(t, LAMBDA c : c.op # "del")
    IN  [i \in 1 .. Len(u) |-> [op |-> u[i].op, ok |-> u[i].ok, out |-> u[i].out]]

\* Two requests with the same content and the same upload and OCR outcomes.
SameInputs(r1, r2) ==
    /\ endpoint[r1] = endpoint[r2]
    /\ header[r1] = header[r2]
    /\ body[r1] = body[r2]
    /\ NonDelete(trace[r1]) = NonDelete(trace[r2])

DeleteFailed(r) == \E i \in Ops(r, "del") : ~trace[r][i].ok

\* C9: on /process-insurance-combined two requests with the same content
\* and the same upload and OCR outcomes get the same response whatever
\* their delete_object calls did, and a request one of whose delete_object
\* calls failed has its response or can take its next step.
C9_ResponseIgnoresDeletes ==
    /\ \A r1 \in Requests : \A r2 \in Requests :
         (/\ endpoint[r1] = Combined /\ Done(r1) /\ Done(r2)
          /\ SameInputs(r1, r2))
             => response[r1] = response[r2]
    /\ \A r \in Requests :
         (endpoint[r] = Combined /\ DeleteFailed(r)) =>
             \/ Done(r) /\ Status(r) \in {200, 500}
             \/ ENABLED Step(r)

\* Two requests with the same inputs got the same 200 response; every
\* delete_object call of one succeeded, one of the other's failed.
C9_Witness ==
    \E r1 \in Requests : \E r2 \in Requests :
        /\ endpoint[r1] = Combined /\ Done(r1) /\ Done(r2)
        /\ SameInputs(r1, r2)
        /\ doc[r1].pages = MaxPages
        /\ DeleteFailed(r1) /\ ~DeleteFailed(r2)
        /\ Status(r1) = 200 /\ response[r1] = response[r2]

(***************************************************************************)
(* C10                                                                     *)
(***************************************************************************)
\* The key string and the value string of the KEY block at index i.
KeyValStrings(blocks, i) == RelLoop(blocks, blocks[i].Relationships, <<>>, <<>>)

\* C10: a KEY block contributes fields[trim(key)] = trim(value) exactly if
\* its key string and its value string are non-empty after trimming, and
\* `fields` holds no empty key and no empty value.
C10_EntryIffNonEmptyTrimmed ==
    (kv_result.done /\ ~kv_result.raised) =>
        /\ \A i \in DOMAIN kv_blocks :
             IsKeyBlock(kv_blocks[i]) =>
                 LET k == Strip(KeyValStrings(kv_blocks, i)[1])
                     v == Strip(KeyValStrings(kv_blocks, i)[2])
                 IN  (<<k, v>> \in kv_result.fields) <=> (k # <<>> /\ v # <<>>)
        /\ \A p \in kv_result.fields : p[1] # <<>> /\ p[2] # <<>>

(***************************************************************************)
(* C11                                                                     *)
(***************************************************************************)
\* Every id a relationship of the graph names is the Id of a block.
NoDanglingIds(blocks) ==
    \A i \in DOMAIN blocks : \A j \in DOMAIN blocks[i].Relationships :
        \A n \in DOMAIN blocks[i].Relationships[j].Ids :
            blocks[i].Relationships[j].Ids[n] \in BlockIds(blocks)

\* Block b has a relationship of the given type.
HasRelOfType(b, type) ==
    b.hasRel /\ \E j \in DOMAIN b.Relationships : b.Relationships[j].Type = type

\* The KEY block at index i has no VALUE relationship, or no value block of
\* it has a CHILD relationship.
KeyWithoutValue(blocks, i) ==
    /\ IsKeyBlock(blocks[i])
    /\ \A j \in DOMAIN blocks[i].Relationships :
         blocks[i].Relationships[j].Type = "VALUE" =>
             \A n \in DOMAIN blocks[i].Relationships[j].Ids :
                 ~HasRelOfType(block_map(blocks, blocks[i].Relationships[j].Ids[n]),
                               "CHILD")

\* The entry <<trim(key), trim(value)>> of the KEY block at index i.
Entry(blocks, i) ==
    <<Strip(KeyValStrings(blocks, i)[1]), Strip(KeyValStrings(blocks, i)[2])>>

\* The KEY blocks that have a value.
KeysWithValue(blocks) ==
    {i \in DOMAIN blocks : IsKeyBlock(blocks[i]) /\ ~KeyWithoutValue(blocks, i)}

\* C11: for a block graph with a KEY block that has no VALUE relationship,
\* or whose value block has no CHILD relationship, the response is 200
\* {fields}; every entry of `fields` is the entry of a KEY block that has a
\* value (the block without one contributes none), and every KEY block
\* whose key and value are non-empty after trimming has its entry there.
C11_KeyWithoutValueAddsNothing ==
    (/\ kv_result.done
     /\ NoDanglingIds(kv_blocks)
     /\ \E i \in DOMAIN kv_blocks : KeyWithoutValue(kv_blocks, i)) =>
        /\ kv_result.response.status = 200
        /\ kv_result.response.key = "fields"
        /\ \A p \in kv_result.response.fields :
             \E j \in KeysWithValue(kv_blocks) : p = Entry(kv_blocks, j)
        /\ \A j \in KeysWithValue(kv_blocks) :
             (Entry(kv_blocks, j)[1] # <<>> /\ Entry(kv_blocks, j)[2] # <<>>)
                 => Entry(kv_blocks, j) \in kv_result.response.fields

\* A graph whose first KEY block has a value block without CHILD and whose
\* second KEY block is complete: the response holds the second one's entry.
C11_Witness ==
    /\ kv_result.done
    /\ kv_blocks = TwoKeyGraph("no_child", TRUE)
    /\ KeyWithoutValue(kv_blocks, 4)
    /\ kv_result.response.status = 200
    /\ kv_result.response.fields = {<< <<"N">>, <<"J">> >>}

(***************************************************************************)
(* C12                                                                     *)
(***************************************************************************)
\* The calls of request r with the given op, in the order they were made.
CallsOf(r, op) == SelectSeq(trace[r], LAMBDA c : c.op = op)

\* The text of the LINE blocks of each response of OcrResponses, joined by
\* newline: "A\nB" for the first, "C" for the second.
LinesJoined == << <<"A", NL, "B">>, <<"C">> >>

\* C12: a request to /process-insurance-combined that is answered 200 made
\* one OCR call per uploaded key, in page order 1..N, and its raw text is
\* the texts of the pages (each the LINE texts of that page's response
\* joined by newline) joined by a blank line in page order.
C12_RawTextInPageOrder ==
    \A r \in Requests :
        (endpoint[r] = Combined /\ Done(r) /\ Status(r) = 200) =>
            LET ocrs == CallsOf(r, "ocr")
                puts == CallsOf(r, "put")
            IN  /\ Len(puts) = doc[r].pages
                /\ Len(ocrs) = doc[r].pages
                /\ \A i \in 1 .. Len(ocrs) :
                     /\ puts[i].out = i
                     /\ ocrs[i].key = puts[i].key
                     /\ ocrs[i].ok
                /\ response[r].key = "raw_text"
                /\ response[r].text =
                     Join(<<NL, NL>>,
                          [i \in 1 .. Len(ocrs) |-> LinesJoined[ocrs[i].out]])

\* Pages OCR'd as ["A", "B"] and ["C"] were answered "A\nB\n\nC".
C12_Witness ==
    \E r \in Requests :
        /\ endpoint[r] = Combined /\ Done(r) /\ Status(r) = 200
        /\ Len(CallsOf(r, "ocr")) = 2
        /\ CallsOf(r, "ocr")[1].out = 1
        /\ CallsOf(r, "ocr")[2].out = 2
        /\ response[r].text = <<"A", NL, "B", NL, NL, "C">>

(***************************************************************************)
(* C13                                                                     *)
(***************************************************************************)
\* The keys request r called delete_object on.
DeleteKeys(r) == {trace[r][i].key : i \in Ops(r, "del")}

\* C13 as stated: on /process-insurance-combined, within one request
\* delete_object is called at most once for any key, on every path and
\* whatever the outcomes of the upload, OCR and delete calls.
C13_AtMostOneDeletePerKey ==
    \A r \in Requests :
        endpoint[r] = Combined =>
            \A k \in DeleteKeys(r) : Cardinality(DelOn(r, k)) <= 1

\* C13 amended: on /process-insurance-combined, within one request
\* delete_object is never called on a key after a delete_object call on
\* that key succeeded, and at most twice on any key: a second call is made
\* only by the leftover cleanup after an OCR failure, on a key whose
\* per-page delete_object call failed.
C13_NoDeleteAfterSuccess ==
    \A r \in Requests :
        endpoint[r] = Combined =>
            /\ NoDeleteAfterDeleted(r)
            /\ \A k \in DeleteKeys(r) :
                 /\ Cardinality(DelOn(r, k)) <= 2
                 /\ k \in Uploaded(r)
                 /\ Cardinality(DelOn(r, k)) = 2 =>
                      /\ OcrFailed(r) # {}
                      /\ \E i \in DelOn(r, k) : \E j \in DelOn(r, k) :
                           /\ i < j
                           /\ ~trace[r][i].ok /\ trace[r][i].out > 0
                           /\ trace[r][j].out = 0

\* The per-page delete of page 1 failed, the OCR call of a later page
\* raised, and the leftover cleanup called delete_object on page 1's key
\* again; the key of the last page was deleted once.
C13_Witness ==
    \E r \in Requests :
        /\ endpoint[r] = Combined /\ Done(r) /\ Status(r) = 500
        /\ doc[r].pages = MaxPages
        /\ Cardinality(DelOn(r, image_keys[r][1])) = 2
        /\ Cardinality(DelOn(r, image_keys[r][MaxPages])) = 1
        /\ Cardinality(Ops(r, "ocr")) = MaxPages

(***************************************************************************)
(* C14                                                                     *)
(***************************************************************************)
\* The put_object calls of request r that failed.
PutFailed(r) == {i \in Ops(r, "put") : ~trace[r][i].ok}

\* C14: on /process-insurance-combined, once put_object of page k failed,
\* the k-1 keys uploaded before are the request's uploads, no OCR call is
\* made, no page is rasterized or uploaded after it, and the request is
\* answered 500 {error} after delete_object was called on each of the k-1
\* keys.
C14_UploadFailureCleansUp ==
    \A r \in Requests :
        endpoint[r] = Combined =>
            \A i \in PutFailed(r) :
                /\ Cardinality(PutOk(r)) = trace[r][i].out - 1
                /\ Ops(r, "ocr") = {}
                /\ \A j \in Ops(r, "put") \cup Ops(r, "raster") : j <= i
                /\ pc[r] \in {"cleanup", "done"}
                /\ Done(r) =>
                     /\ Status(r) = 500 /\ response[r].key = "error"
                     /\ \A k \in Uploaded(r) : Cardinality(DelOn(r, k)) = 1

\* put_object failed on the last of MaxPages pages and the request was
\* answered after a delete_object call on each key uploaded before.
C14_Witness ==
    \E r \in Requests :
        /\ endpoint[r] = Combined /\ Done(r) /\ Status(r) = 500
        /\ \E i \in PutFailed(r) : trace[r][i].out = MaxPages
        /\ Cardinality(Ops(r, "del")) = MaxPages - 1
        /\ Cardinality(Uploaded(r)) = MaxPages - 1

(***************************************************************************)
(* C15                                                                     *)
(***************************************************************************)
\* A response, once returned, is the request's response for good.
ResponseIsFinal ==
    \A r \in Requests : response[r] # NoResp => response'[r] = response[r]

\* After a call other than delete_object failed, request r makes no call but
\* delete_object calls of its cleanup, and none at all on /process-insurance.
ErrorPathStops(r) ==
    \A i \in DOMAIN trace[r] :
        (trace[r][i].op # "del" /\ ~trace[r][i].ok) =>
            \A j \in DOMAIN trace[r] :
                j > i => (trace[r][j].op = "del" /\ endpoint[r] = Combined)

\* On /process-insurance-combined a failed OCR call is the last OCR call and
\* the response carries the error message, no text of any page.
NoPartialText(r) ==
    (endpoint[r] = Combined /\ OcrFailed(r) # {}) =>
        /\ \A i \in OcrFailed(r) : \A j \in Ops(r, "ocr") : j <= i
        /\ Done(r) => /\ response[r].key = "error"
                      /\ response[r].text = <<"Textract OCR failed.">>
                      /\ Status(r) = 500

\* C15: every request received is answered, with one response that is never
\* replaced; after a failed call no further page is processed, and after a
\* failed OCR call on /process-insurance-combined no OCR call follows and
\* no raw text is returned.
C15_OneResponseAndShortCircuit ==
    /\ \A r \in Requests : (pc[r] # "idle") ~> Done(r)
    /\ [][ResponseIsFinal]_vars
    /\ [](\A r \in Requests :
            /\ Done(r) <=> response[r] # NoResp
            /\ ErrorPathStops(r)
            /\ NoPartialText(r))

\* The OCR call of page 1 returned text, that of page 2 of MaxPages failed,
\* and the request was answered.
C15_Witness ==
    \E r \in Requests :
        /\ endpoint[r] = Combined /\ Done(r) /\ doc[r].pages = MaxPages
        /\ Cardinality(Ops(r, "ocr")) = 2
        /\ OcrFailed(r) # {}
        /\ raw_text_pages[r] # <<>>

(***************************************************************************)
(* C16                                                                     *)
(***************************************************************************)
\* The keys of the put_object calls of request r, and of all its calls on
\* the bucket or the OCR provider.
PutKeys(r) == {trace[r][i].key : i \in Ops(r, "put")}
TouchedKeys(r) ==
    {trace[r][i].key : i \in Ops(r, "put") \cup Ops(r, "ocr") \cup Ops(r, "del")}

\* C16: with fresh tokens, the put_object calls of one request are on
\* pairwise distinct keys, and no request calls put_object, the OCR provider
\* or delete_object on a key another request uploaded, whatever the
\* interleaving and although the requests submit the same filename.
C16_KeysUniqueAndIsolated ==
    /\ \A r \in Requests :
         /\ Cardinality(PutKeys(r)) = Cardinality(Ops(r, "put"))
         /\ TouchedKeys(r) \subseteq PutKeys(r)
    /\ \A r1 \in Requests : \A r2 \in Requests \ {r1} :
         TouchedKeys(r1) \cap PutKeys(r2) = {}

\* Two requests with the same filename have each uploaded MaxPages pages
\* and all the objects are in the bucket at once.
C16_Witness ==
    /\ \A r \in Requests :
         /\ endpoint[r] = Combined
         /\ body[r].filename \in Filenames
         /\ Cardinality(Uploaded(r)) = MaxPages
    /\ \A r1 \in Requests : \A r2 \in Requests :
         body[r1].filename = body[r2].filename
    /\ Cardinality(s3_objects) = MaxPages * Cardinality(Requests)

====
